---- MODULE Spec2Model ----
(***************************************************************************)
(* Network-info resolution for CAAS units (juju apiserver, uniter facade). *)
(*                                                                         *)
(* The module models NetworkInfoCAAS.ProcessAPIRequest,                    *)
(* NetworkInfoBase.NetworksForRelation and the address poller              *)
(* (maybeGetUnitAddress / pollForAddress) as a state machine.  A call runs *)
(* in one step up to the point where it blocks in the poller; every fetch  *)
(* attempt of a poll is a step of its own, and the step that ends the last *)
(* poll runs the call to its return.                                       *)
(***************************************************************************)
EXTENDS Integers, Sequences, FiniteSets, TLC

(***************************************************************************)
(* Bounds and program constants.                                           *)
(***************************************************************************)

\* Longest address list the unit's AllAddresses yields in the model.
MaxAddrs == 2

\* Most device records handed to spaceAddressesFromNetworkInfo, and most
\* addresses of one device.
MaxDevices == 2

MaxDeviceAddrs == 2

\* defaultRetryFactory: Delay 3s, MaxDuration 30s (one time unit = 1s).
Delay == 3

MaxDuration == 30

\* corenetwork.AlphaSpaceId, the only space of a CAAS model.
AlphaSpaceId == "0"

ScopePublic == "public"

ScopeCloudLocal == "local-cloud"

ScopeFanLocal == "local-fan"

ScopeMachineLocal == "local-machine"

ScopeLinkLocal == "link-local"

ScopeUnknown == ""

\* The value no fetcher and no lookup can produce: "not set" / "not called".
None == "n/a"

Nil == "nil"

(***************************************************************************)
(* The entity store's contents the model draws from.                       *)
(***************************************************************************)

\* Endpoint names a request may name and the charm may bind.
EndpointNames == {"db", "web"}

\* The endpoint rel.Endpoint(applicationName) names for the relation.
RelationEndpoints == {"db"}

\* A value that does not parse or resolve as a network address.
Malformed == "not an address"

\* The scoped addresses unit.AllAddresses draws its list from.
AddressPool ==
    { [Value |-> "54.1.2.3",  Scope |-> ScopePublic],
      [Value |-> "10.1.2.3",  Scope |-> ScopeCloudLocal],
      [Value |-> "10.1.0.7",  Scope |-> ScopeMachineLocal],
      [Value |-> Malformed,   Scope |-> ScopePublic] }

\* Every address list of at most MaxAddrs entries (repeats allowed).
AddressLists == UNION { [1..n -> AddressPool] : n \in 0..MaxAddrs }

\* What unit.PublicAddress / unit.PrivateAddress return once assigned.
PublicAddr == [Value |-> "54.1.2.3", Scope |-> ScopePublic]

PrivateAddr == [Value |-> "10.1.2.3", Scope |-> ScopeCloudLocal]

\* The zero corenetwork.SpaceAddress.
ZeroAddr == [Value |-> "", Scope |-> ScopeUnknown]

\* Model configuration egress-subnets values captured by init.
DefaultEgressChoices == { <<>>, <<"0.0.0.0/0">> }

\* Outcomes of the per-relation egress lookup (RelationEgressNetworks).
EgressLookups ==
    { [kind |-> "NotFound", cidrs |-> <<>>],
      [kind |-> "Error",    cidrs |-> <<>>],
      [kind |-> "Found",    cidrs |-> <<>>],
      [kind |-> "Found",    cidrs |-> <<"10.0.0.0/24", "192.168.1.0/24", "10.0.0.0/24">>] }

\* Interface names of device records: one of a fan device, and two of other
\* devices, one of which shares only the first three letters.
DeviceNames == {"eth0", "fan-252", "fanout0"}

\* Address values of device records.
DeviceValues == {"252.0.16.1", "169.254.0.5"}

\* network.NetworkInfo records, as far as they are read here.
DeviceRecords ==
    [InterfaceName : DeviceNames,
     Addresses : UNION { [1..n -> DeviceValues] : n \in 0..MaxDeviceAddrs }]

\* Every list of at most MaxDevices device records.
DeviceLists == UNION { [1..n -> DeviceRecords] : n \in 0..MaxDevices }

\* Values of the application's kubernetes-service-type configuration key.
ServiceTypes == {"", "ClusterIP", "LoadBalancer", "ExternalName"}

(***************************************************************************)
(* Sequence helpers.                                                       *)
(***************************************************************************)

Range(s) == { s[i] : i \in 1..Len(s) }

Contains(s, v) == \E i \in 1..Len(s) : s[i] = v

RECURSIVE MachineLocal(_)
\* The addresses of machine-local scope, in their order.
MachineLocal(addrs) ==
    IF addrs = <<>> THEN <<>>
    ELSE IF Head(addrs).Scope = ScopeMachineLocal
         THEN <<Head(addrs)>> \o MachineLocal(Tail(addrs))
         ELSE MachineLocal(Tail(addrs))

RECURSIVE NotMachineLocal(_)
\* The addresses of any other scope, in their order.
NotMachineLocal(addrs) ==
    IF addrs = <<>> THEN <<>>
    ELSE IF Head(addrs).Scope # ScopeMachineLocal
         THEN <<Head(addrs)>> \o NotMachineLocal(Tail(addrs))
         ELSE NotMachineLocal(Tail(addrs))

Values(addrs) == [i \in 1..Len(addrs) |-> addrs[i].Value]

(***************************************************************************)
(* Subnet / address utilities.                                             *)
(***************************************************************************)

\* Rank of a scope, lower is preferred for advertisement.
SortOrder(scope) ==
    CASE scope = ScopePublic       -> 0
      [] scope = ScopeCloudLocal   -> 1
      [] scope = ScopeFanLocal     -> 2
      [] scope = ScopeMachineLocal -> 3
      [] scope = ScopeLinkLocal    -> 4
      [] OTHER                     -> 5

RECURSIVE InsertByScope(_, _)
\* a placed after every entry of the sorted list whose rank is not worse.
InsertByScope(sorted, a) ==
    IF sorted = <<>> THEN <<a>>
    ELSE IF SortOrder(Head(sorted).Scope) <= SortOrder(a.Scope)
         THEN <<Head(sorted)>> \o InsertByScope(Tail(sorted), a)
         ELSE <<a>> \o sorted

RECURSIVE SortAddresses(_)
\* corenetwork.SortAddresses: stable sort ascending by scope rank.
SortAddresses(addrs) ==
    IF addrs = <<>> THEN <<>>
    ELSE InsertByScope(SortAddresses(SubSeq(addrs, 1, Len(addrs) - 1)),
                       addrs[Len(addrs)])

\* network.FormatAsCIDR of a one-address list: the single-host range of the
\* address, or an error for a value that is no network address.
FormatAsCIDR(values) ==
    IF \E i \in 1..Len(values) : values[i] = Malformed
    THEN [err |-> "FormatAsCIDR", cidrs |-> <<>>]
    ELSE [err |-> Nil, cidrs |-> [i \in 1..Len(values) |-> values[i] \o "/32"]]

\* A buggy dedup keeping every value: the input unchanged.
DedupKeepsAll(values) == values

RECURSIVE DedupFrom(_, _, _)
\* The loop of dedupStringListPreservingOrder from index i on, with the
\* values already emitted in out (the seen set is Range(out)).
DedupFrom(values, i, out) ==
    IF i > Len(values) THEN out
    ELSE IF Contains(out, values[i]) THEN DedupFrom(values, i + 1, out)
         ELSE DedupFrom(values, i + 1, Append(out, values[i]))

dedupStringListPreservingOrder(values) == DedupFrom(values, 1, <<>>)

\* dedupAddrList: lists of at most one entry are returned as they are, longer
\* ones lose every entry whose Address was seen before.
dedupAddrList(addrList) ==
    IF Len(addrList) <= 1 THEN addrList ELSE DedupFrom(addrList, 1, <<>>)

\* strings.HasPrefix(name, "fan-")
HasFanPrefix(name) == Len(name) >= 4 /\ SubSeq(name, 1, 4) = "fan-"

RECURSIVE spaceAddressesFromNetworkInfo(_)
\* Scoped addresses from device records: fan-local for the addresses of a
\* device whose name starts with "fan-", unknown scope for all others.
spaceAddressesFromNetworkInfo(netInfos) ==
    IF netInfos = <<>> THEN <<>>
    ELSE LET nwInfo == Head(netInfos)
             scope  == IF HasFanPrefix(nwInfo.InterfaceName)
                       THEN ScopeFanLocal ELSE ScopeUnknown
         IN  [i \in 1..Len(nwInfo.Addresses) |->
                 [Value |-> nwInfo.Addresses[i], Scope |-> scope]]
             \o spaceAddressesFromNetworkInfo(Tail(netInfos))

(***************************************************************************)
(* State.                                                                  *)
(***************************************************************************)

VARIABLES
    bindings,       \* n.bindings: bound endpoint name -> space id (init)
    defaultEgress,  \* n.defaultEgress: model egress subnets (init)
    pc,             \* "idle", "pollPublic", "pollPrivate", "polled", "done"
    call,           \* the entry point running or returned, None before
    args,           \* the request: Endpoints, RelationId (<<>> for nil)
    relEndpoint,    \* endpoint name of getRelationAndEndpointName
    svcType,        \* the application's configured service type
    pollAddr,       \* pollAddr as passed to NetworksForRelation
    lookup,         \* outcome of the relation's egress-networks lookup
    crossModel,     \* rel.RemoteApplication: "true", "false" or "Error"
    egress,         \* what getRelationEgressSubnets returned (line 173)
    pubPoll,        \* (address, err) of the public poll, as of its last fetch
    privPoll,       \* (address, err) of the private poll, as of its last fetch
    elapsed,        \* retry.Call: clock time since the running poll started
    slept,          \* clock time the running call has been blocked in sleeps
    relAddrs,       \* outcome of AllAddresses inside NetworksForRelation
    apiAddrs,       \* outcome of AllAddresses inside ProcessAPIRequest
    rel,            \* what NetworksForRelation returned
    preDedup,       \* result as handed to dedupNetworkInfoResults (line 137)
    results,        \* Results of the returned params.NetworkInfoResults
    err,            \* the error the call returned, Nil for none
    devices,        \* device records handed to spaceAddressesFromNetworkInfo
    deviceAddrs     \* their addresses, scoped and sorted (lines 114-116)

object == <<bindings, defaultEgress>>

inputs == <<call, args, relEndpoint, svcType, pollAddr, lookup, crossModel, egress>>

poller == <<pubPoll, privPoll, elapsed, slept>>

outputs == <<relAddrs, apiAddrs, rel, preDedup, results, err>>

device == <<devices, deviceAddrs>>

vars == <<object, pc, inputs, poller, outputs, device>>

\* A poll that has made no fetch.
Unpolled == [err |-> None, address |-> ZeroAddr]

\* No relation resolved.
NoRelation == [err |-> None, space |-> "", ingress |-> <<>>, egress |-> <<>>]

\* No egress lookup made.
NoLookup == [kind |-> None, cidrs |-> <<>>]

NoEgress == [err |-> None, cidrs |-> <<>>]

\* A params.NetworkInfoResults with no entry.
EmptyResults == [e \in {} |-> None]

\* AllAddresses outcomes: not called, failed, fetched.
NotFetched == [err |-> None, addrs |-> <<>>]

FetchFailed == [err |-> "AllAddresses", addrs |-> <<>>]

Fetched(list) == [err |-> Nil, addrs |-> list]

(***************************************************************************)
(* The address poller.                                                     *)
(***************************************************************************)

\* A retry policy without a delay between attempts.
retryFactoryNoDelay == [Delay |-> 0, MaxDuration |-> MaxDuration]

\* A retry policy with twice the maximum duration.
retryFactoryDoubled == [Delay |-> Delay, MaxDuration |-> 2 * MaxDuration]

\* n.retryFactory(): the retry.CallArgs template of defaultRetryFactory.
retryFactory == [Delay |-> Delay, MaxDuration |-> MaxDuration]

\* What one call of a fetcher (unit.PublicAddress, unit.PrivateAddress) may
\* return: no address yet, any other error, or an address (possibly empty).
FetchOutcomes(addr) ==
    { [err |-> "NoAddress", address |-> ZeroAddr],
      [err |-> "Fatal",     address |-> ZeroAddr],
      [err |-> Nil,         address |-> ZeroAddr],
      [err |-> Nil,         address |-> addr] }

\* The outcomes of a fetcher that never has an address.
OnlyNoAddress == { [err |-> "NoAddress", address |-> ZeroAddr] }

\* Every error retried.
NothingFatal(e) == FALSE

\* retryArg.IsFatalError: every error but the no-address error is fatal.
IsFatalError(e) == e # "NoAddress"

\* retry.Call: after a failed attempt, no further attempt is made if the
\* next delay would end after the maximum duration.
DurationExceeded(elapsedTime) ==
    retryFactory.MaxDuration > 0
    /\ elapsedTime + retryFactory.Delay > retryFactory.MaxDuration

\* The loop of retry.Call as pollForAddress sets it up: it returns after an
\* attempt made at elapsedTime that ended with out if the attempt succeeded,
\* if its error is fatal, or if the duration is used up.
CallReturns(out, elapsedTime) ==
    \/ out.err = Nil
    \/ IsFatalError(out.err)
    \/ DurationExceeded(elapsedTime)

\* An address without a value taken as the polled address.
PolledAddressUnchecked(out) ==
    IF out.err = Nil THEN <<out.address>> ELSE <<>>

\* The private poll's address used although the public poll had one.
PolledAddressDropped(out) == <<>>

\* maybeGetUnitAddress, after a poll: the polled address if the poll
\* returned no error and a non-empty address, nothing otherwise.  The
\* address pollForAddress returns is the one its last fetch assigned: the
\* variable is shared with the closure and read after retry.Call has run.
PolledAddress(out) ==
    IF out.err = Nil /\ out.address.Value # "" THEN <<out.address>> ELSE <<>>

(***************************************************************************)
(* The relation network resolver.                                          *)
(***************************************************************************)

\* The model default returned whatever the lookup found.
EgressAlwaysDefault(found) == [err |-> Nil, cidrs |-> defaultEgress]

\* Every failure of the lookup recovered to the model default.
EgressErrorRecovered(found) ==
    IF found.kind = "Found" THEN [err |-> Nil, cidrs |-> found.cidrs]
    ELSE [err |-> Nil, cidrs |-> defaultEgress]

\* getRelationEgressSubnets: the relation's own egress CIDRs, the model
\* default if none are recorded, an error for any other lookup failure.
getRelationEgressSubnets(found) ==
    IF found.kind = "Found" THEN [err |-> Nil, cidrs |-> found.cidrs]
    ELSE IF found.kind = "NotFound" THEN [err |-> Nil, cidrs |-> defaultEgress]
    ELSE [err |-> "EgressNetworks", cidrs |-> <<>>]

\* Machine-local addresses advertised as well.
IngressUnfiltered(polled, fetched) ==
    IF polled # <<>> THEN polled
    ELSE IF fetched.err # Nil THEN <<>> ELSE fetched.addrs

\* NetworksForRelation, lines 185-196: the polled address if there is one,
\* else the unit's addresses that are not machine-local (none if they
\* cannot be fetched).
RelationIngress(polled, fetched) ==
    IF polled # <<>> THEN polled
    ELSE IF fetched.err # Nil THEN <<>> ELSE NotMachineLocal(fetched.addrs)

\* Egress never derived from ingress.
EgressNeverDerived(egressSubnets, ingressValues) ==
    [err |-> Nil, cidrs |-> egressSubnets]

\* Egress derived from the last ingress address.
EgressFromLastIngress(egressSubnets, ingressValues) ==
    IF Len(egressSubnets) = 0 /\ Len(ingressValues) > 0
    THEN FormatAsCIDR(<<ingressValues[Len(ingressValues)]>>)
    ELSE [err |-> Nil, cidrs |-> egressSubnets]

\* Egress derived from ingress although there are egress subnets.
EgressAlwaysFromIngress(egressSubnets, ingressValues) ==
    IF Len(ingressValues) > 0
    THEN FormatAsCIDR(<<ingressValues[1]>>)
    ELSE [err |-> Nil, cidrs |-> egressSubnets]

\* Lines 200-206 (and 126-132): with no egress subnets and some ingress
\* address, egress is the CIDR of the first ingress address.
EgressOrFirstIngress(egressSubnets, ingressValues) ==
    IF Len(egressSubnets) = 0 /\ Len(ingressValues) > 0
    THEN FormatAsCIDR(<<ingressValues[1]>>)
    ELSE [err |-> Nil, cidrs |-> egressSubnets]

\* NetworksForRelation from line 185 on, given the egress of line 173, the
\* addresses maybeGetUnitAddress returned and the AllAddresses outcome.
NetworksForRelationFrom185(egressSubnets, polled, fetched) ==
    LET ingress == SortAddresses(RelationIngress(polled, fetched))
        derived == EgressOrFirstIngress(egressSubnets, Values(ingress))
    IN  IF derived.err # Nil
        THEN [err |-> derived.err, space |-> "", ingress |-> <<>>, egress |-> <<>>]
        ELSE [err |-> Nil, space |-> AlphaSpaceId,
              ingress |-> ingress, egress |-> derived.cidrs]

(***************************************************************************)
(* The request processor, CAAS variant.                                    *)
(***************************************************************************)

\* The result of an endpoint the charm does not define (lines 44-45).
NotValidResult ==
    [Error |-> "NotValid", Info |-> <<>>,
     IngressAddresses |-> <<>>, EgressSubnets |-> <<>>]

\* Every requested endpoint treated as bound.
BoundUnchecked(endpoints) == endpoints

\* The local bindings map of lines 37-48: the requested endpoints that
\* n.bindings knows.
BoundEndpoints(endpoints) == endpoints \cap DOMAIN bindings

\* Results written for every endpoint with relation data as well.
ProcessedWithRelation(endpoints, relEp) ==
    (endpoints \cup {relEp}) \cap DOMAIN bindings

\* The endpoints the loop of lines 94-135 writes a result for: the keys of
\* the local bindings map, whatever the relation's endpoint is.
ProcessedEndpoints(endpoints, relEp) == BoundEndpoints(endpoints)

\* The relation's egress given to every endpoint.
EndpointEgressForAll(endpoint, hasRel, relEp, r) ==
    IF hasRel /\ Len(r.egress) > 0 THEN r.egress ELSE defaultEgress

\* endpointEgressSubnets[endpoint] after lines 47 and 60-62.
EndpointEgress(endpoint, hasRel, relEp, r) ==
    IF hasRel /\ endpoint = relEp /\ Len(r.egress) > 0
    THEN r.egress ELSE defaultEgress

\* endpointIngressAddresses[endpoint] after line 63, as values.
EndpointIngress(endpoint, hasRel, relEp, r) ==
    IF hasRel /\ endpoint = relEp THEN Values(r.ingress) ELSE <<>>

\* networkInfos[AlphaSpaceId].NetworkInfos of lines 79-92.
NetworkInfos(sorted) ==
    << [InterfaceName |-> "", Addresses |-> Values(MachineLocal(sorted))] >>

\* machineNetworkInfoResultToNetworkInfoResult: the device records as the
\* Info of a result that has no error.
machineNetworkInfoResultToNetworkInfoResult(netInfos) ==
    [Error |-> Nil, Info |-> netInfos,
     IngressAddresses |-> <<>>, EgressSubnets |-> <<>>]

\* The unit's addresses preferred to the ingress recorded for the endpoint.
ChooseDefaultFirst(recorded, defaultIngressAddresses, netInfos) ==
    IF Len(defaultIngressAddresses) > 0 THEN defaultIngressAddresses
    ELSE IF Len(recorded) > 0 THEN recorded
    ELSE Values(SortAddresses(spaceAddressesFromNetworkInfo(netInfos)))

\* Lines 101-121: the ingress recorded for the endpoint, else the unit's
\* addresses that are not machine-local, else the device addresses sorted.
ChooseIngress(recorded, defaultIngressAddresses, netInfos) ==
    IF Len(recorded) > 0 THEN recorded
    ELSE IF Len(defaultIngressAddresses) > 0 THEN defaultIngressAddresses
    ELSE Values(SortAddresses(spaceAddressesFromNetworkInfo(netInfos)))

\* Lines 96-134 for one endpoint: (info, err).
EndpointInfo(endpoint, hasRel, relEp, r, sorted) ==
    LET netInfos == NetworkInfos(sorted)
        info     == machineNetworkInfoResultToNetworkInfoResult(netInfos)
        ingress  == ChooseIngress(EndpointIngress(endpoint, hasRel, relEp, r),
                                  Values(NotMachineLocal(sorted)), netInfos)
        derived  == EgressOrFirstIngress(
                        EndpointEgress(endpoint, hasRel, relEp, r), ingress)
    IN  [err  |-> derived.err,
         info |-> [info EXCEPT !.IngressAddresses = ingress,
                               !.EgressSubnets = derived.cidrs]]

\* dedupNetworkInfoResults for one result.
DedupResult(res) ==
    IF res.Error # Nil THEN res
    ELSE [res EXCEPT
            !.IngressAddresses = dedupStringListPreservingOrder(@),
            !.EgressSubnets = dedupStringListPreservingOrder(@),
            !.Info = [i \in 1..Len(@) |->
                        [@[i] EXCEPT !.Addresses = dedupAddrList(@)]]]

dedupNetworkInfoResults(info) == [e \in DOMAIN info |-> DedupResult(info[e])]

(***************************************************************************)
(* Steps.                                                                  *)
(***************************************************************************)

\* The running call returns.
Return(error, out, raw) ==
    /\ pc' = "done"
    /\ err' = error
    /\ results' = out
    /\ preDedup' = raw

\* ProcessAPIRequest from line 66 on: the unit's addresses are sorted and
\* split, every bound endpoint gets its result, the results are deduplicated.
\* A CIDR formatting error returns the results written so far with the error.
AssembleResults(endpoints, hasRel, relEp, r, list) ==
    LET sorted    == SortAddresses(list)
        bound     == ProcessedEndpoints(endpoints, relEp)
        unbound   == endpoints \ BoundEndpoints(endpoints)
        built     == [e \in bound |-> EndpointInfo(e, hasRel, relEp, r, sorted)]
        failing   == { e \in bound : built[e].err # Nil }
        upTo(set) == [e \in unbound \cup set |->
                        IF e \in set THEN built[e].info ELSE NotValidResult]
    IN  IF failing = {}
        THEN Return(Nil, dedupNetworkInfoResults(upTo(bound)), upTo(bound))
        ELSE \E before \in SUBSET (bound \ failing) :
                Return("FormatAsCIDR", upTo(before), upTo(before))

\* The call resumes in NetworksForRelation at line 185 with the addresses
\* maybeGetUnitAddress returned, and runs to its return.
Resume(c, a, relEp, egressSubnets, polled) ==
    \E list \in AddressLists, relFail \in BOOLEAN, apiFail \in BOOLEAN :
        LET relFetch == IF polled # <<>> THEN NotFetched
                        ELSE IF relFail THEN FetchFailed ELSE Fetched(list)
            r        == NetworksForRelationFrom185(egressSubnets, polled, relFetch)
            reached  == c = "ProcessAPIRequest" /\ r.err = Nil
            apiFetch == IF ~reached THEN NotFetched
                        ELSE IF apiFail THEN FetchFailed ELSE Fetched(list)
        IN  /\ relFail => polled = <<>>
            /\ apiFail => reached
            /\ (list # <<>>) => (\/ (polled = <<>> /\ ~relFail)
                                 \/ (reached /\ ~apiFail))
            /\ rel' = r
            /\ relAddrs' = relFetch
            /\ apiAddrs' = apiFetch
            /\ IF ~reached THEN Return(r.err, EmptyResults, EmptyResults)
               ELSE IF apiFail THEN Return("AllAddresses", EmptyResults, EmptyResults)
               ELSE AssembleResults(a.Endpoints, TRUE, relEp, r, list)

\* The call fails before it reaches the poller or the unit's addresses.
Abort(error) ==
    /\ rel' = NoRelation
    /\ relAddrs' = NotFetched
    /\ apiAddrs' = NotFetched
    /\ Return(error, EmptyResults, EmptyResults)

\* NetworksForRelation up to the poller (lines 173-183, 149-157): the egress
\* lookup, then with pollAddr the cross-model check; a cross-model relation
\* starts the public poll, any other goes on at line 185.
EnterNetworksForRelation(c, a, relEp, poll) ==
    \E found \in EgressLookups, cross \in {"true", "false", "Error", None} :
        LET eg == getRelationEgressSubnets(found)
        IN  /\ lookup' = found
            /\ egress' = eg
            /\ crossModel' = cross
            /\ (cross = None) <=> (eg.err # Nil \/ ~poll)
            /\ UNCHANGED poller
            /\ IF eg.err # Nil THEN Abort(eg.err)
               ELSE IF cross = "Error" THEN Abort("RemoteApplication")
               ELSE IF cross = "true"
               THEN /\ pc' = "pollPublic"
                    /\ UNCHANGED outputs
               ELSE Resume(c, a, relEp, eg.cidrs, <<>>)

\* Polling for every service type but the cluster-internal one.
PollUnlessClusterIP(type) == type \notin {"ClusterIP", None}

\* pollAddr of getRelationNetworkInfo, lines 155-160.
PollForServiceType(type) == type \in {"LoadBalancer", "ExternalName"}

\* A request to ProcessAPIRequest arrives.
ProcessAPIRequest ==
    /\ pc = "idle"
    /\ \E endpoints \in SUBSET EndpointNames, relationId \in {<<>>, <<0>>} :
        LET a == [Endpoints |-> endpoints, RelationId |-> relationId]
        IN  /\ call' = "ProcessAPIRequest"
            /\ args' = a
            /\ UNCHANGED <<object, device>>
            /\ IF relationId = <<>>
               THEN \* No relation context: lines 54-64 are skipped.
                    /\ UNCHANGED <<relEndpoint, svcType, pollAddr, lookup,
                                   crossModel, egress, poller>>
                    /\ rel' = NoRelation
                    /\ relAddrs' = NotFetched
                    /\ \E list \in AddressLists, apiFail \in BOOLEAN :
                        /\ apiFail => list = <<>>
                        /\ apiAddrs' = IF apiFail THEN FetchFailed ELSE Fetched(list)
                        /\ IF apiFail
                           THEN Return("AllAddresses", EmptyResults, EmptyResults)
                           ELSE AssembleResults(endpoints, FALSE, None, NoRelation, list)
               ELSE \* getRelationNetworkInfo, lines 145-163.
                    \E found \in {"Relation", "Endpoint", "ApplicationConfig"}
                                    \cup RelationEndpoints,
                       type \in ServiceTypes \cup {None} :
                        /\ (type = None) <=> (found \notin RelationEndpoints)
                        /\ relEndpoint' = IF found \in RelationEndpoints
                                          THEN found ELSE None
                        /\ svcType' = type
                        /\ pollAddr' = PollForServiceType(type)
                        /\ IF found \notin RelationEndpoints
                           THEN /\ UNCHANGED <<lookup, crossModel, egress, poller>>
                                /\ Abort(found)
                           ELSE EnterNetworksForRelation(
                                    "ProcessAPIRequest", a, found,
                                    PollForServiceType(type))

\* NetworksForRelation is called on its own for a relation.
NetworksForRelation ==
    /\ pc = "idle"
    /\ \E poll \in BOOLEAN :
        /\ call' = "NetworksForRelation"
        /\ args' = [Endpoints |-> {}, RelationId |-> <<>>]
        /\ pollAddr' = poll
        /\ UNCHANGED <<object, relEndpoint, svcType, device>>
        /\ EnterNetworksForRelation("NetworksForRelation",
                                    [Endpoints |-> {}, RelationId |-> <<>>],
                                    None, poll)

\* A poll of maybeGetUnitAddress returns: with an address the wait is over,
\* without one the private poll follows the public one.  The clock readings
\* of retry.Call end with the poll.
PollReturns(stage, out) ==
    /\ pc' = IF stage = "pollPublic" /\ PolledAddress(out) = <<>>
             THEN "pollPrivate" ELSE "polled"
    /\ elapsed' = 0
    /\ slept' = IF pc' = "polled" THEN 0 ELSE slept

\* One attempt of a poll: the fetcher is called, and the loop of retry.Call
\* sleeps for the delay before the next attempt, or returns.
Attempt(stage, out) ==
    IF CallReturns(out, elapsed)
    THEN PollReturns(stage, out)
    ELSE /\ elapsed' = elapsed + retryFactory.Delay
         /\ slept' = slept + retryFactory.Delay
         /\ UNCHANGED pc

\* pollForAddress(n.unit.PublicAddress) makes an attempt.
FetchPublic(outcomes) ==
    /\ pc = "pollPublic"
    /\ \E out \in outcomes :
        /\ pubPoll' = out
        /\ Attempt("pollPublic", out)
    /\ UNCHANGED <<object, inputs, privPoll, outputs, device>>

\* pollForAddress(n.unit.PrivateAddress) makes an attempt.
FetchPrivate(outcomes) ==
    /\ pc = "pollPrivate"
    /\ \E out \in outcomes :
        /\ privPoll' = out
        /\ Attempt("pollPrivate", out)
    /\ UNCHANGED <<object, inputs, pubPoll, outputs, device>>

\* What maybeGetUnitAddress returns for a cross-model relation: the public
\* poll's address, else the private poll's, else nothing.
maybeGetUnitAddress ==
    IF PolledAddress(pubPoll) # <<>> THEN PolledAddress(pubPoll)
    ELSE PolledAddress(privPoll)

\* maybeGetUnitAddress has returned: the call goes on at line 185.
AfterPolling ==
    /\ pc = "polled"
    /\ Resume(call, args, relEndpoint, egress.cidrs, maybeGetUnitAddress)
    /\ UNCHANGED <<object, inputs, poller, device>>

\* No call has been made.
NoCall ==
    /\ pc = "idle"
    /\ call = None
    /\ args = [Endpoints |-> {}, RelationId |-> <<>>]
    /\ relEndpoint = None
    /\ svcType = None
    /\ pollAddr = FALSE
    /\ lookup = NoLookup
    /\ crossModel = None
    /\ egress = NoEgress
    /\ pubPoll = Unpolled
    /\ privPoll = Unpolled
    /\ elapsed = 0
    /\ slept = 0
    /\ relAddrs = NotFetched
    /\ apiAddrs = NotFetched
    /\ rel = NoRelation
    /\ preDedup = EmptyResults
    /\ results = EmptyResults
    /\ err = Nil

Init ==
    /\ bindings \in UNION { [eps -> {AlphaSpaceId}] : eps \in SUBSET EndpointNames }
    /\ defaultEgress \in DefaultEgressChoices
    /\ devices = <<>>
    /\ deviceAddrs = <<>>
    /\ NoCall

Next ==
    \/ ProcessAPIRequest
    \/ NetworksForRelation
    \/ FetchPublic(FetchOutcomes(PublicAddr))
    \/ FetchPrivate(FetchOutcomes(PrivateAddr))
    \/ AfterPolling

Spec == Init /\ [][Next]_vars

(***************************************************************************)
(* A fetcher that never has an address: every fetch of either poll returns *)
(* the no-address error.  The polls are entered through NetworksForRelation *)
(* (ProcessAPIRequest enters them through the same call).  A call that is  *)
(* running keeps running: it is one thread, and a sleep ends when the      *)
(* clock has advanced by the delay.                                        *)
(***************************************************************************)

Polling ==
    \/ FetchPublic(OnlyNoAddress)
    \/ FetchPrivate(OnlyNoAddress)
    \/ AfterPolling

NoAddressNext ==
    \/ NetworksForRelation
    \/ Polling

NoAddressSpec == Init /\ [][NoAddressNext]_vars /\ WF_vars(Polling)

(***************************************************************************)
(* The device addresses of lines 114-116 on their own, for device records  *)
(* of any interface name: spaceAddressesFromNetworkInfo gives each address *)
(* a scope, corenetwork.SortAddresses sorts them.                          *)
(***************************************************************************)

DeviceInit ==
    /\ bindings = [e \in {} |-> AlphaSpaceId]
    /\ defaultEgress = <<>>
    /\ devices \in DeviceLists
    /\ deviceAddrs = <<>>
    /\ NoCall

SortDeviceAddresses ==
    /\ pc = "idle"
    /\ pc' = "done"
    /\ call' = "spaceAddressesFromNetworkInfo"
    /\ deviceAddrs' = SortAddresses(spaceAddressesFromNetworkInfo(devices))
    /\ UNCHANGED <<object, devices, args, relEndpoint, svcType, pollAddr,
                   lookup, crossModel, egress, poller, outputs>>

DeviceNext == SortDeviceAddresses

DeviceSpec == DeviceInit /\ [][DeviceNext]_vars

(***************************************************************************)
(* Vocabulary of the properties.                                           *)
(***************************************************************************)

Returned == pc = "done"

\* ProcessAPIRequest has returned without a whole-request error.
Succeeded == Returned /\ call = "ProcessAPIRequest" /\ err = Nil

\* NetworksForRelation has returned without an error.
Resolved == Returned /\ rel.err = Nil

HasRelation == args.RelationId # <<>>

NoDuplicates(s) == \A i, j \in 1..Len(s) : i < j => s[i] # s[j]

FirstIndex(s, v) == CHOOSE i \in 1..Len(s) : s[i] = v /\ \A j \in 1..(i - 1) : s[j] # v

\* out holds each value of in once, in the order of first occurrence in in.
FirstOccurrences(out, in) ==
    /\ NoDuplicates(out)
    /\ Range(out) = Range(in)
    /\ \A i, j \in 1..Len(out) :
          i < j => FirstIndex(in, out[i]) < FirstIndex(in, out[j])

\* The single-host range of a well-formed address value.
HostCIDR(value) == value \o "/32"

\* A poll that ended without a usable address.
NoUsableAddress(poll) ==
    \/ poll.err \in {"NoAddress", "Fatal"}
    \/ poll.err = Nil /\ poll.address.Value = ""

HasAddress(poll) == poll.err = Nil /\ poll.address.Value # ""

Count(s, v) == Cardinality({ i \in 1..Len(s) : s[i] = v })

\* list is sorted by scope rank.
RankSorted(list) ==
    \A i, j \in 1..Len(list) :
        i < j => SortOrder(list[i].Scope) <= SortOrder(list[j].Scope)

\* ingress holds exactly the addresses of addrs that are not machine-local.
AllButMachineLocal(ingress, addrs) ==
    \A a \in AddressPool :
        Count(ingress, a) = IF a.Scope = ScopeMachineLocal THEN 0 ELSE Count(addrs, a)

(***************************************************************************)
(* C1.  Whenever ProcessAPIRequest returns without a whole-request error,  *)
(* the keys of the returned results are exactly the requested endpoint     *)
(* names, and every entry is either a populated result without an error or *)
(* a result that carries only an error.                                    *)
(***************************************************************************)
C1_ResultsCoverRequest ==
    Succeeded =>
        /\ DOMAIN results = args.Endpoints
        /\ \A e \in DOMAIN results :
              \/ results[e].Error = Nil /\ Len(results[e].Info) = 1
              \/ /\ results[e].Error # Nil
                 /\ results[e].Info = <<>>
                 /\ results[e].IngressAddresses = <<>>
                 /\ results[e].EgressSubnets = <<>>

\* A successful request in a relation context whose bound endpoint was not
\* asked for.
C1_Witness ==
    /\ Succeeded
    /\ HasRelation
    /\ relEndpoint \in DOMAIN bindings
    /\ relEndpoint \notin args.Endpoints
    /\ args.Endpoints # {}

(***************************************************************************)
(* C2.  Every requested endpoint that is not in the bindings gets a        *)
(* not-valid error as its result, which is never overwritten (also when    *)
(* the endpoint is the relation's), the request is not failed by it, and   *)
(* every requested endpoint that is bound gets a populated result.         *)
(***************************************************************************)
C2_UnboundEndpointError ==
    /\ err # "NotValid"
    /\ Succeeded =>
          \A e \in args.Endpoints :
              IF e \in DOMAIN bindings
              THEN results[e].Error = Nil /\ Len(results[e].Info) = 1
              ELSE results[e] = [Error |-> "NotValid", Info |-> <<>>,
                                 IngressAddresses |-> <<>>, EgressSubnets |-> <<>>]

\* The relation's endpoint is requested and unbound, next to a bound one.
C2_Witness ==
    /\ Succeeded
    /\ HasRelation
    /\ relEndpoint \in args.Endpoints
    /\ relEndpoint \notin DOMAIN bindings
    /\ rel.ingress # <<>>
    /\ \E e \in args.Endpoints : e \in DOMAIN bindings /\ results[e].Error = Nil

(***************************************************************************)
(* C3.  In every populated result of a successful response the ingress     *)
(* list, the egress list and each device's address list hold no value      *)
(* twice, and hold the values of the list before deduplication in the      *)
(* order of their first occurrence.                                        *)
(***************************************************************************)
C3_ResultsDeduplicated ==
    Succeeded =>
        \A e \in DOMAIN results :
            results[e].Error = Nil =>
                /\ FirstOccurrences(results[e].IngressAddresses,
                                    preDedup[e].IngressAddresses)
                /\ FirstOccurrences(results[e].EgressSubnets,
                                    preDedup[e].EgressSubnets)
                /\ Len(results[e].Info) = Len(preDedup[e].Info)
                /\ \A i \in 1..Len(results[e].Info) :
                      FirstOccurrences(results[e].Info[i].Addresses,
                                       preDedup[e].Info[i].Addresses)

\* Two unit addresses of the same value give one ingress value, and an
\* egress list with a repeated CIDR loses the repetition.
C3_Witness ==
    /\ Succeeded
    /\ \E e \in DOMAIN results :
          /\ results[e].Error = Nil
          /\ Len(apiAddrs.addrs) = 2
          /\ apiAddrs.addrs[1].Value = apiAddrs.addrs[2].Value
          /\ Len(results[e].IngressAddresses) = 1
          /\ Len(preDedup[e].EgressSubnets) = 3
          /\ Len(results[e].EgressSubnets) = 2

C5_EgressIsFirstIngressCIDR ==
    (Resolved /\ lookup.kind = "NotFound" /\ rel.ingress # <<>>) =>
        rel.egress = <<HostCIDR(rel.ingress[1].Value)>>

(***************************************************************************)
(* C5 as amended.  For a relation without an egress override: the resolved *)
(* ingress is sorted by scope rank; if the model default egress is empty   *)
(* and there is an ingress address, the resolved egress is the one-element *)
(* list of the CIDR of the first, most preferred ingress address; if the   *)
(* model default is not empty, the resolved egress is the model default.   *)
(***************************************************************************)
C5_EgressIsFirstIngressCIDRWithoutDefault ==
    (Resolved /\ lookup.kind = "NotFound") =>
        /\ RankSorted(rel.ingress)
        /\ (defaultEgress = <<>> /\ rel.ingress # <<>>) =>
              rel.egress = <<HostCIDR(rel.ingress[1].Value)>>
        /\ defaultEgress # <<>> => rel.egress = defaultEgress

\* No override, no model default, and two ingress addresses that the sort
\* had to exchange.
C5_Witness ==
    /\ Resolved
    /\ lookup.kind = "NotFound"
    /\ defaultEgress = <<>>
    /\ Len(rel.ingress) = 2
    /\ rel.ingress[1].Scope # rel.ingress[2].Scope
    /\ relAddrs.addrs = <<rel.ingress[2], rel.ingress[1]>>
    /\ rel.egress = <<HostCIDR(rel.ingress[1].Value)>>

(***************************************************************************)
(* C6.  In pollForAddress only the no-address error is retried: while a    *)
(* poll is running, every fetch so far returned that error; the first      *)
(* fetch error of another kind ends the poll at once, so that no further   *)
(* fetch is made in it, and the poll returns that error.                   *)
(***************************************************************************)
C6_OnlyNoAddressRetried ==
    /\ pc = "pollPublic" => pubPoll.err \in {None, "NoAddress"}
    /\ pc = "pollPrivate" => privPoll.err \in {None, "NoAddress"}
    /\ pubPoll.err = "Fatal" => pc \in {"pollPrivate", "polled", "done"}
    /\ privPoll.err = "Fatal" => pc \in {"polled", "done"}

\* A fatal fetch error after some retries has ended the public poll.
C6_Witness ==
    /\ pubPoll.err = "Fatal"
    /\ pc = "pollPrivate"
    /\ slept = 2 * Delay

(***************************************************************************)
(* C7.  With a fetcher that returns the no-address error on every call, a  *)
(* poll never runs past the maximum duration on its clock, and it ends:    *)
(* it returns the no-address error to maybeGetUnitAddress.                 *)
(***************************************************************************)
C7_PollTerminates ==
    /\ [](pc \in {"pollPublic", "pollPrivate"} => elapsed <= MaxDuration)
    /\ [](pc = "pollPublic" =>
            <>(pc = "pollPrivate" /\ pubPoll.err = "NoAddress"))
    /\ [](pc = "pollPrivate" =>
            <>(pc = "polled" /\ privPoll.err = "NoAddress"))

\* The public poll has timed out and the private poll is at its last attempt.
C7_Witness ==
    /\ pc = "pollPrivate"
    /\ pubPoll.err = "NoAddress"
    /\ privPoll.err = "NoAddress"
    /\ elapsed = MaxDuration

(***************************************************************************)
(* C8 as claimed.  The clock time one call spends blocked in the poller's  *)
(* sleeps never exceeds the retry policy's maximum duration.               *)
(***************************************************************************)
C8_BlockedAtMostMaxDuration == slept <= MaxDuration

(***************************************************************************)
(* C8 as amended.  Each poll of a call sleeps for at most the maximum      *)
(* duration, and the call, which polls the public and then the private     *)
(* address, is blocked for at most twice the maximum duration.             *)
(***************************************************************************)
C8_BlockedAtMostTwiceMaxDuration ==
    /\ elapsed <= MaxDuration
    /\ slept <= 2 * MaxDuration
    /\ pc = "pollPublic" => slept = elapsed

\* Both polls have used their whole budget.
C8_Witness ==
    /\ pc = "pollPrivate"
    /\ slept = 2 * MaxDuration

C10_ExhaustedPollsNoError ==
    (Returned /\ pubPoll.err = "NoAddress" /\ privPoll.err = "NoAddress") =>
        rel.err = Nil

(***************************************************************************)
(* C10 as amended.  When both polls exhaust their budget seeing only the   *)
(* no-address error, the resolver goes on to the unit's addresses: the     *)
(* only error it can return is that of formatting the first ingress        *)
(* address as a CIDR when there are no egress subnets; otherwise it        *)
(* returns no error and, sorted by scope, all of the unit's addresses that *)
(* are not machine-local, or none if the addresses cannot be fetched.      *)
(***************************************************************************)
C10_ExhaustedPollsFallBack ==
    (Returned /\ pubPoll.err = "NoAddress" /\ privPoll.err = "NoAddress") =>
        /\ relAddrs.err \in {Nil, "AllAddresses"}
        /\ rel.err \in {Nil, "FormatAsCIDR"}
        /\ rel.err = "FormatAsCIDR" =>
              /\ egress.cidrs = <<>>
              /\ \E a \in Range(relAddrs.addrs) :
                    a.Value = Malformed /\ a.Scope # ScopeMachineLocal
        /\ rel.err = Nil =>
              /\ RankSorted(rel.ingress)
              /\ AllButMachineLocal(rel.ingress, relAddrs.addrs)

\* Both polls timed out; the unit has a machine-local address, which is
\* left out, and another one, which is the ingress.
C10_Witness ==
    /\ Returned
    /\ pubPoll.err = "NoAddress"
    /\ privPoll.err = "NoAddress"
    /\ rel.err = Nil
    /\ Len(rel.ingress) = 1
    /\ Len(relAddrs.addrs) = 2
    /\ \E i \in 1..2 : relAddrs.addrs[i].Scope = ScopeMachineLocal

\* The errors the entity store raised in the call that has returned.
StoreErrors ==
    (IF call = "ProcessAPIRequest" /\ HasRelation /\ relEndpoint = None
     THEN {"Lookup"} ELSE {})
    \cup (IF lookup.kind = "Error" THEN {"EgressNetworks"} ELSE {})
    \cup (IF crossModel = "Error" THEN {"RemoteApplication"} ELSE {})
    \cup (IF pubPoll.err = "Fatal" THEN {"PublicAddress"} ELSE {})
    \cup (IF privPoll.err = "Fatal" THEN {"PrivateAddress"} ELSE {})
    \cup (IF relAddrs.err = "AllAddresses" THEN {"RelationAllAddresses"} ELSE {})
    \cup (IF apiAddrs.err = "AllAddresses" THEN {"AllAddresses"} ELSE {})

\* The call was aborted: it returned an error and no result.
Aborted == Returned /\ err # Nil /\ results = EmptyResults

(***************************************************************************)
(* C11 as claimed.  Every error of the entity store other than the egress  *)
(* lookup's not-found and the poller's no-address error aborts the call    *)
(* and is returned to the caller as the error of the whole request: the    *)
(* relation, endpoint and application configuration lookups, the egress    *)
(* lookup, the remote-application lookup, the public and private address   *)
(* fetches, and the all-addresses fetch inside NetworksForRelation.        *)
(***************************************************************************)
C11_EveryStoreErrorFatal ==
    (Returned /\ StoreErrors # {}) => Aborted

(***************************************************************************)
(* C11 as amended.  An error of the relation, endpoint or application      *)
(* configuration lookup, of the egress lookup (other than not-found), of   *)
(* the remote-application lookup, or of the all-addresses fetch of         *)
(* ProcessAPIRequest aborts the call and is returned as its error.  An     *)
(* error of the public or private address fetch ends that poll and is not  *)
(* returned: the private poll follows a failed public poll, and the        *)
(* resolver goes on to the unit's addresses.  An error of the all-addresses *)
(* fetch inside NetworksForRelation is not returned either: the resolver   *)
(* returns no error and an empty ingress.                                  *)
(***************************************************************************)
C11_LookupErrorsFatalFetchErrorsLogged ==
    /\ Returned =>
          /\ "Lookup" \in StoreErrors =>
                Aborted /\ err \in {"Relation", "Endpoint", "ApplicationConfig"}
          /\ lookup.kind = "Error" => Aborted /\ err = "EgressNetworks"
          /\ crossModel = "Error" => Aborted /\ err = "RemoteApplication"
          /\ apiAddrs.err = "AllAddresses" => Aborted /\ err = "AllAddresses"
          /\ relAddrs.err = "AllAddresses" => rel.err = Nil /\ rel.ingress = <<>>
          /\ (pubPoll.err = "Fatal" \/ privPoll.err = "Fatal") =>
                rel.err \in {Nil, "FormatAsCIDR"}
    /\ err # "Fatal"
    /\ (pubPoll.err = "Fatal" /\ pc \in {"polled", "done"}) => privPoll # Unpolled
    /\ (privPoll.err = "Fatal" /\ pc = "done") => relAddrs # NotFetched

\* Both address fetches and the resolver's all-addresses fetch failed, and
\* ProcessAPIRequest returned a populated result without an error.
C11_Witness ==
    /\ Succeeded
    /\ pubPoll.err = "Fatal"
    /\ privPoll.err = "Fatal"
    /\ relAddrs.err = "AllAddresses"
    /\ \E e \in DOMAIN results : results[e].Error = Nil

\* The poller has been entered: a fetch was made or is about to be made.
PollerInvoked ==
    \/ pc \in {"pollPublic", "pollPrivate", "polled"}
    \/ pubPoll # Unpolled
    \/ privPoll # Unpolled
    \/ elapsed > 0
    \/ slept > 0

(***************************************************************************)
(* C12.  During a request the address poller is invoked only if a relation *)
(* identifier was supplied, the application's service type is              *)
(* load-balancer or external-name, and the relation is cross-model.  In    *)
(* every other case no public or private address is fetched and the call   *)
(* never sleeps.  Called directly, NetworksForRelation polls only with     *)
(* pollAddr for a cross-model relation.                                    *)
(***************************************************************************)
C12_PollOnlyForExternalServiceCrossModel ==
    PollerInvoked =>
        /\ pollAddr
        /\ crossModel = "true"
        /\ egress.err = Nil
        /\ call = "ProcessAPIRequest" =>
              /\ HasRelation
              /\ relEndpoint # None
              /\ svcType \in {"LoadBalancer", "ExternalName"}

\* A request for an external-name service in a cross-model relation is
\* blocked in the private poll after sleeping through the public one.
C12_Witness ==
    /\ call = "ProcessAPIRequest"
    /\ pc = "pollPrivate"
    /\ svcType = "ExternalName"
    /\ crossModel = "true"
    /\ slept > MaxDuration

\* The most preferred address of addrs that is not machine-local, the first
\* of the best scope rank, is one that cannot be formatted as a CIDR.
FirstPreferredMalformed(addrs) ==
    \E i \in 1..Len(addrs) :
        /\ addrs[i].Value = Malformed
        /\ addrs[i].Scope # ScopeMachineLocal
        /\ \A j \in 1..Len(addrs) :
              (j # i /\ addrs[j].Scope # ScopeMachineLocal) =>
                  \/ SortOrder(addrs[j].Scope) > SortOrder(addrs[i].Scope)
                  \/ SortOrder(addrs[j].Scope) = SortOrder(addrs[i].Scope) /\ j > i

\* NetworksForRelation has to derive egress from a malformed first ingress.
RelationDerivesFromMalformed ==
    /\ egress = [err |-> Nil, cidrs |-> <<>>]
    /\ relAddrs.err = Nil
    /\ FirstPreferredMalformed(relAddrs.addrs)

\* ProcessAPIRequest has to derive the egress of the bound endpoint e from a
\* malformed first ingress: e has no egress and no recorded ingress.
EndpointDerivesFromMalformed(e) ==
    /\ e \in args.Endpoints \cap DOMAIN bindings
    /\ defaultEgress = <<>>
    /\ apiAddrs.err = Nil
    /\ FirstPreferredMalformed(apiAddrs.addrs)
    /\ (HasRelation /\ e = relEndpoint) => rel.ingress = <<>> /\ rel.egress = <<>>

(***************************************************************************)
(* C13.  If egress has to be derived from the first ingress address and    *)
(* that address cannot be formatted as a CIDR, NetworksForRelation returns *)
(* an error and ProcessAPIRequest returns it as the error of the whole     *)
(* request, whichever endpoint it was derived for and however many others  *)
(* were requested; no result ever carries it as its own error, and the     *)
(* error is returned for no other reason.                                  *)
(***************************************************************************)
C13_MalformedIngressFailsRequest ==
    Returned =>
        /\ \A e \in DOMAIN results : results[e].Error \in {Nil, "NotValid"}
        /\ RelationDerivesFromMalformed =>
              /\ rel.err = "FormatAsCIDR"
              /\ err = "FormatAsCIDR"
              /\ results = EmptyResults
        /\ (\E e \in EndpointNames : EndpointDerivesFromMalformed(e)) =>
              err = "FormatAsCIDR"
        /\ err = "FormatAsCIDR" =>
              \/ RelationDerivesFromMalformed
              \/ \E e \in EndpointNames : EndpointDerivesFromMalformed(e)

\* Two bound endpoints were requested in a relation context; the relation's
\* own ingress was polled, and the other endpoint's malformed first ingress
\* failed the request.
C13_Witness ==
    /\ Returned
    /\ call = "ProcessAPIRequest"
    /\ err = "FormatAsCIDR"
    /\ args.Endpoints = EndpointNames
    /\ DOMAIN bindings = EndpointNames
    /\ rel.err = Nil
    /\ rel.ingress # <<>>
    /\ ~EndpointDerivesFromMalformed(relEndpoint)
    /\ DOMAIN results # {}

\* The step ends the public poll / the private poll.
PublicPollEnds == pc = "pollPublic" /\ pc' # "pollPublic"

PrivatePollEnds == pc = "pollPrivate" /\ pc' # "pollPrivate"

\* The poll's last fetch returned no error and an address without a value.
EmptyAddress(poll) == poll.err = Nil /\ poll.address.Value = ""

(***************************************************************************)
(* C14 as claimed.  pollForAddress keeps calling the fetcher until a fetch *)
(* yields a non-empty address or the time budget is used up (or, by C6, a  *)
(* fetch fails with a fatal error): a fetch that returns no error and an   *)
(* empty address does not end the poll.                                    *)
(***************************************************************************)
C14_EmptyAddressKeepsPolling ==
    [][/\ PublicPollEnds =>
             \/ HasAddress(pubPoll')
             \/ pubPoll'.err = "Fatal"
             \/ DurationExceeded(elapsed)
       /\ PrivatePollEnds =>
             \/ HasAddress(privPoll')
             \/ privPoll'.err = "Fatal"
             \/ DurationExceeded(elapsed)]_vars

(***************************************************************************)
(* C14 as amended.  pollForAddress keeps calling the fetcher while the     *)
(* fetch returns the no-address error and the time budget is not used up:  *)
(* a poll ends with the first fetch that returns no error, whether its     *)
(* address is empty or not, with a fatal error, or with the budget.  A     *)
(* poll that ended with no error and an empty address yields no address:   *)
(* the private poll follows such a public poll, and the resolver falls     *)
(* back to the unit's addresses after such a private poll.                 *)
(***************************************************************************)
C14_FirstFetchWithoutErrorEndsPoll ==
    [][/\ PublicPollEnds =>
             \/ pubPoll'.err = Nil
             \/ pubPoll'.err = "Fatal"
             \/ pubPoll'.err = "NoAddress" /\ DurationExceeded(elapsed)
       /\ PrivatePollEnds =>
             \/ privPoll'.err = Nil
             \/ privPoll'.err = "Fatal"
             \/ privPoll'.err = "NoAddress" /\ DurationExceeded(elapsed)
       /\ (pc = "pollPublic" /\ pc' = "pollPublic") =>
             /\ pubPoll'.err = "NoAddress"
             /\ elapsed' = elapsed + Delay
             /\ elapsed' <= MaxDuration
       /\ (pc = "pollPrivate" /\ pc' = "pollPrivate") =>
             /\ privPoll'.err = "NoAddress"
             /\ elapsed' = elapsed + Delay
             /\ elapsed' <= MaxDuration
       /\ (PublicPollEnds /\ EmptyAddress(pubPoll')) => pc' = "pollPrivate"
       /\ (PrivatePollEnds /\ EmptyAddress(privPoll')) => pc' = "polled"
       /\ (pc = "polled" /\ EmptyAddress(privPoll)) =>
             relAddrs' # NotFetched]_vars

\* The second fetch of the public poll returned no error and no address:
\* the poll ended after one delay and the private poll has begun.
C14_Witness ==
    /\ pc = "pollPrivate"
    /\ EmptyAddress(pubPoll)
    /\ privPoll = Unpolled
    /\ slept = Delay

\* The ingress the relation resolver recorded for endpoint e, as values.
RecordedIngress(e) ==
    IF HasRelation /\ e = relEndpoint THEN Values(rel.ingress) ELSE <<>>

\* The unit's addresses that are not machine-local, in scope-sorted order.
ExternalIngress == Values(SortAddresses(NotMachineLocal(apiAddrs.addrs)))

\* The unit's machine-local addresses, the addresses of the one device.
DeviceIngress == Values(MachineLocal(apiAddrs.addrs))

(***************************************************************************)
(* C15.  For each bound endpoint of a successful request the ingress is    *)
(* chosen by a strict chain: the ingress recorded for the endpoint by the  *)
(* relation resolver if it is not empty; else all of the unit's addresses  *)
(* that are not machine-local, in scope-sorted order, if there are any;    *)
(* else the machine-local device addresses.  The list is exactly one of    *)
(* the three, never a mixture.                                             *)
(***************************************************************************)
C15_IngressFallbackChain ==
    Succeeded =>
        \A e \in args.Endpoints \cap DOMAIN bindings :
            preDedup[e].IngressAddresses =
                IF RecordedIngress(e) # <<>> THEN RecordedIngress(e)
                ELSE IF ExternalIngress # <<>> THEN ExternalIngress
                ELSE DeviceIngress

\* In one response the relation's endpoint has the polled public address as
\* its ingress, and the other endpoint, the unit having only a machine-local
\* address, falls through to the device address.
C15_Witness ==
    /\ Succeeded
    /\ HasRelation
    /\ args.Endpoints = EndpointNames
    /\ DOMAIN bindings = EndpointNames
    /\ rel.ingress = <<PublicAddr>>
    /\ ExternalIngress = <<>>
    /\ results[relEndpoint].IngressAddresses = <<"54.1.2.3">>
    /\ \E e \in EndpointNames :
          e # relEndpoint /\ results[e].IngressAddresses = <<"10.1.0.7">>

\* The ingress of an endpoint without recorded ingress: the default chain.
DefaultChainIngress ==
    IF ExternalIngress # <<>> THEN ExternalIngress ELSE DeviceIngress

\* The egress of an endpoint that has the model default and this ingress.
DefaultEgressFor(ingress) ==
    IF defaultEgress # <<>> THEN defaultEgress
    ELSE IF ingress # <<>> THEN <<HostCIDR(ingress[1])>>
    ELSE <<>>

\* The result of endpoint e in the response to the same request made
\* without a relation identifier, the unit's addresses being the same.
WithoutRelation(e) ==
    DedupResult(EndpointInfo(e, FALSE, None, NoRelation,
                             SortAddresses(apiAddrs.addrs)).info)

(***************************************************************************)
(* C16.  A relation identifier changes only the result of the relation's   *)
(* endpoint: in a successful response every other requested bound endpoint *)
(* has the device info, the ingress and the egress the same request has    *)
(* without a relation identifier for the same store contents, that is the  *)
(* device addresses of the unit, the ingress of the default chain and the  *)
(* egress of the model default.                                            *)
(***************************************************************************)
C16_RelationChangesOnlyItsEndpoint ==
    (Succeeded /\ HasRelation) =>
        \A e \in (args.Endpoints \cap DOMAIN bindings) \ {relEndpoint} :
            /\ results[e] = WithoutRelation(e)
            /\ preDedup[e].Info =
                  << [InterfaceName |-> "", Addresses |-> DeviceIngress] >>
            /\ preDedup[e].IngressAddresses = DefaultChainIngress
            /\ preDedup[e].EgressSubnets = DefaultEgressFor(DefaultChainIngress)

\* The relation has its own egress and a polled ingress, which its endpoint
\* carries; the other endpoint of the response has the model default egress
\* and the unit's addresses.
C16_Witness ==
    /\ Succeeded
    /\ HasRelation
    /\ args.Endpoints = EndpointNames
    /\ DOMAIN bindings = EndpointNames
    /\ lookup.cidrs # <<>>
    /\ rel.ingress = <<PublicAddr>>
    /\ defaultEgress # <<>>
    /\ results[relEndpoint].IngressAddresses = <<"54.1.2.3">>
    /\ results[relEndpoint].EgressSubnets # defaultEgress
    /\ \E e \in EndpointNames :
          /\ e # relEndpoint
          /\ results[e].EgressSubnets = defaultEgress
          /\ results[e].IngressAddresses = <<"10.1.2.3">>

\* The devices that have the address value v.
DevicesWith(v) ==
    { i \in 1..Len(devices) : Contains(devices[i].Addresses, v) }

\* v is an address of fan devices only / of devices that are no fan devices.
FromFanDevice(v) ==
    /\ DevicesWith(v) # {}
    /\ \A i \in DevicesWith(v) : HasFanPrefix(devices[i].InterfaceName)

FromOtherDevice(v) ==
    /\ DevicesWith(v) # {}
    /\ \A i \in DevicesWith(v) : ~HasFanPrefix(devices[i].InterfaceName)

(***************************************************************************)
(* C17.  Of the addresses spaceAddressesFromNetworkInfo builds from device *)
(* records, once sorted by scope rank, every address of a device whose     *)
(* name starts with "fan-" comes after every address of a device that is   *)
(* no fan device.                                                          *)
(***************************************************************************)
C17_FanAddressesAfterOthers ==
    (pc = "done" /\ call = "spaceAddressesFromNetworkInfo") =>
        \A i, j \in 1..Len(deviceAddrs) :
            (/\ FromFanDevice(deviceAddrs[i].Value)
             /\ FromOtherDevice(deviceAddrs[j].Value)) => j < i

\* The egress of endpoint e before any derivation from ingress: the egress
\* the relation resolver returned for the relation's endpoint if it is not
\* empty, the model default otherwise.
EgressBeforeDerivation(e) ==
    IF HasRelation /\ e = relEndpoint /\ rel.egress # <<>>
    THEN rel.egress ELSE defaultEgress

(***************************************************************************)
(* C18.  In every populated result of a successful response the egress is  *)
(* empty only if the ingress is empty.  When the endpoint's egress (model  *)
(* default or relation egress) is empty and its ingress is not, the egress *)
(* is exactly the one-element list of the single-host CIDR of the first    *)
(* ingress address; when the endpoint's egress is not empty it is the      *)
(* egress of the result, not the derived CIDR.                             *)
(***************************************************************************)
C18_EgressEmptyOnlyIfIngressEmpty ==
    Succeeded =>
        \A e \in args.Endpoints \cap DOMAIN bindings :
            /\ results[e].EgressSubnets = <<>> => results[e].IngressAddresses = <<>>
            /\ (EgressBeforeDerivation(e) = <<>>
                  /\ preDedup[e].IngressAddresses # <<>>) =>
                  /\ preDedup[e].EgressSubnets =
                        <<HostCIDR(preDedup[e].IngressAddresses[1])>>
                  /\ results[e].EgressSubnets =
                        <<HostCIDR(results[e].IngressAddresses[1])>>
            /\ EgressBeforeDerivation(e) # <<>> =>
                  /\ preDedup[e].EgressSubnets = EgressBeforeDerivation(e)
                  /\ results[e].EgressSubnets =
                        dedupStringListPreservingOrder(EgressBeforeDerivation(e))

\* Without a model default, the relation's endpoint keeps the egress of its
\* relation, and the other endpoint of the response, with two ingress
\* addresses, has the CIDR of the first as its egress.
C18_Witness ==
    /\ Succeeded
    /\ HasRelation
    /\ defaultEgress = <<>>
    /\ args.Endpoints = EndpointNames
    /\ DOMAIN bindings = EndpointNames
    /\ lookup.cidrs # <<>>
    /\ results[relEndpoint].EgressSubnets = <<"10.0.0.0/24", "192.168.1.0/24">>
    /\ \E e \in EndpointNames :
          /\ e # relEndpoint
          /\ results[e].IngressAddresses = <<"54.1.2.3", "10.1.2.3">>
          /\ results[e].EgressSubnets = <<"54.1.2.3/32">>

====
